---- MODULE Spec2Model ----
(***************************************************************************)
(* Model of packages/dojoswap/src/token.rs: the cw20 InstantiateMsg, its   *)
(* accessor get_cap and its validator validate, with the two private       *)
(* helpers is_valid_name and is_valid_symbol.                              *)
(*                                                                         *)
(* A String is modelled as the sequence of its Unicode scalar values; the  *)
(* byte view taken by as_bytes() is its UTF-8 encoding.                    *)
(***************************************************************************)
EXTENDS Integers, Sequences, FiniteSets

VARIABLES msg, result, cap

vars == <<msg, result, cap>>

----------------------------------------------------------------------------
(* Bounds of the explored inputs *)

\* longest name, in encoded bytes
MaxNameBytes == 52
\* names are taken with a byte length within NameEdge of either end of 0..MaxNameBytes
NameEdge == 3
\* longest symbol, in encoded bytes
MaxSymbolBytes == 13
\* symbols of one repeated character are taken within SymbolEdge of either end
SymbolEdge == 3
\* decimals MinDecimals..MaxDecimals are explored in Spec, with 0 and u8::MAX
MinDecimals == 17
MaxDecimals == 20
\* largest supply cap
MaxCap == 1

\* u8::MAX, the largest value of the field decimals
U8Max == 255

----------------------------------------------------------------------------
(* Option<T> and StdResult<()> *)

None == [tag |-> "None"]

Some(v) == [tag |-> "Some", val |-> v]

Ok == [kind |-> "Ok", msg |-> ""]

generic_err(m) == [kind |-> "GenericErr", msg |-> m]

\* the value of result and cap before the operation has been called
NotCalled == [kind |-> "NotCalled", msg |-> ""]

----------------------------------------------------------------------------
(* Strings and their bytes *)

\* UTF-8 encoding of one Unicode scalar value
Utf8(c) ==
    IF c < 128 THEN <<c>>
    ELSE IF c < 2048 THEN <<192 + (c \div 64), 128 + (c % 64)>>
    ELSE IF c < 65536 THEN
        <<224 + (c \div 4096), 128 + ((c \div 64) % 64), 128 + (c % 64)>>
    ELSE
        <<240 + (c \div 262144), 128 + ((c \div 4096) % 64),
          128 + ((c \div 64) % 64), 128 + (c % 64)>>

\* as_bytes giving one byte for each character
as_bytes_per_char(s) == [i \in 1..Len(s) |-> s[i] % 256]

RECURSIVE as_bytes(_)
\* str::as_bytes: the bytes of the string, character after character
as_bytes(s) ==
    IF s = <<>> THEN <<>> ELSE Utf8(Head(s)) \o as_bytes(Tail(s))

----------------------------------------------------------------------------
(* The helpers *)

\* is_valid_name rejecting a length of 3
is_valid_name_min_excluded(name) ==
    LET bytes == as_bytes(name) IN
    IF Len(bytes) <= 3 \/ Len(bytes) > 50 THEN FALSE ELSE TRUE

\* is_valid_name without the upper limit
is_valid_name_no_max(name) ==
    LET bytes == as_bytes(name) IN
    IF Len(bytes) < 3 THEN FALSE ELSE TRUE

is_valid_name(name) ==
    LET bytes == as_bytes(name) IN
    IF Len(bytes) < 3 \/ Len(bytes) > 50 THEN FALSE ELSE TRUE

RECURSIVE SymbolLoop_from_64(_, _)
\* the loop with the upper-case range starting one byte early, at '@'
SymbolLoop_from_64(bytes, i) ==
    IF i > Len(bytes) THEN TRUE
    ELSE IF (bytes[i] # 45) /\ (bytes[i] < 64 \/ bytes[i] > 90)
                            /\ (bytes[i] < 97 \/ bytes[i] > 122)
         THEN FALSE
         ELSE SymbolLoop_from_64(bytes, i + 1)

RECURSIVE SymbolLoop(_, _)
\* the for loop of is_valid_symbol, from the i-th byte on
SymbolLoop(bytes, i) ==
    IF i > Len(bytes) THEN TRUE
    ELSE IF (bytes[i] # 45) /\ (bytes[i] < 65 \/ bytes[i] > 90)
                            /\ (bytes[i] < 97 \/ bytes[i] > 122)
         THEN FALSE
         ELSE SymbolLoop(bytes, i + 1)

\* is_valid_symbol without the loop over the bytes
is_valid_symbol_length_only(symbol) ==
    LET bytes == as_bytes(symbol) IN
    IF Len(bytes) < 3 \/ Len(bytes) > 12 THEN FALSE
    ELSE TRUE

is_valid_symbol(symbol) ==
    LET bytes == as_bytes(symbol) IN
    IF Len(bytes) < 3 \/ Len(bytes) > 12 THEN FALSE
    ELSE SymbolLoop(bytes, 1)

----------------------------------------------------------------------------
(* impl InstantiateMsg *)

NameErr == "Name is not in the expected format (3-50 UTF-8 bytes)"

SymbolErr == "Ticker symbol is not in expected format [a-zA-Z\\-]{3,12}"

DecimalsErr == "Decimals must not exceed 18"

\* and_then giving a cap of zero to a minter without a cap
and_then_cap_zero(o) ==
    IF o.tag = "None" THEN None
    ELSE IF o.val.cap = None THEN Some(0) ELSE o.val.cap

\* Option::and_then with the closure |v| v.cap
and_then_cap(o) == IF o.tag = "None" THEN None ELSE o.val.cap

get_cap(m) == and_then_cap(m.mint)

\* validate with the limit of decimals at 19
validate_decimals_19(m) ==
    IF ~is_valid_name(m.name) THEN generic_err(NameErr)
    ELSE IF ~is_valid_symbol(m.symbol) THEN generic_err(SymbolErr)
    ELSE IF m.decimals > 19 THEN generic_err(DecimalsErr)
    ELSE Ok

\* validate checking the symbol before the name
validate_symbol_first(m) ==
    IF ~is_valid_symbol(m.symbol) THEN generic_err(SymbolErr)
    ELSE IF ~is_valid_name(m.name) THEN generic_err(NameErr)
    ELSE IF m.decimals > 18 THEN generic_err(DecimalsErr)
    ELSE Ok

\* validate checking decimals before the symbol
validate_decimals_first(m) ==
    IF ~is_valid_name(m.name) THEN generic_err(NameErr)
    ELSE IF m.decimals > 18 THEN generic_err(DecimalsErr)
    ELSE IF ~is_valid_symbol(m.symbol) THEN generic_err(SymbolErr)
    ELSE Ok

\* validate checking decimals only for a token that can be minted
validate_decimals_if_mint(m) ==
    IF ~is_valid_name(m.name) THEN generic_err(NameErr)
    ELSE IF ~is_valid_symbol(m.symbol) THEN generic_err(SymbolErr)
    ELSE IF m.mint # None /\ m.decimals > 18 THEN generic_err(DecimalsErr)
    ELSE Ok

validate(m) ==
    IF ~is_valid_name(m.name) THEN generic_err(NameErr)
    ELSE IF ~is_valid_symbol(m.symbol) THEN generic_err(SymbolErr)
    ELSE IF m.decimals > 18 THEN generic_err(DecimalsErr)
    ELSE Ok

----------------------------------------------------------------------------
(* The requests explored *)

Rep(c, n) == [i \in 1..n |-> c]

\* characters of 1, 2, 3 and 4 encoded bytes: a, e-acute, euro sign, an emoji
NameChars == {97, 233, 8364, 128512}

NearEdge(len, edge, max) == len <= edge \/ (len >= max - edge /\ len <= max)

\* "test_token"
TestName == <<116, 101, 115, 116, 95, 116, 111, 107, 101, 110>>

\* the names made of n copies of the character c
Repeated(c) ==
    { Rep(c, n) : n \in { k \in 0..MaxNameBytes :
                            NearEdge(k * Len(Utf8(c)), NameEdge, MaxNameBytes) } }

Names ==
    UNION { Repeated(c) : c \in NameChars }
    \cup { TestName, Rep(128512, 12) \o <<233>>, Rep(8364, 16) \o <<97, 97, 97>> }

\* "TNT"
TNT == <<84, 78, 84>>

\* characters around the edges of the three accepted byte ranges, and others
ProbeChars == {32, 44, 46, 48, 64, 65, 91, 96, 97, 122, 123, 233}

\* the characters next to the two ranges of letters
EdgeChars == {64, 91, 96, 123}

Symbols ==
    { Rep(45, n) : n \in { k \in 0..MaxSymbolBytes :
                              NearEdge(k, SymbolEdge, MaxSymbolBytes) } }
    \cup { <<p, 78, 84>> : p \in ProbeChars }
    \cup { Rep(45, 11) \o <<p>> : p \in EdgeChars }
    \cup { TNT, <<84, 78>>, <<84, 78, 32, 84>>, <<98, 116, 99>>, <<97, 45, 90>> }

Decimals == (MinDecimals..MaxDecimals) \cup {0, 6, U8Max}

Caps == {None} \cup { Some(c) : c \in 0..MaxCap }

Mints ==
    {None}
    \cup { Some([minter |-> "minter0000", cap |-> c]) : c \in Caps }
    \cup { Some([minter |-> "minter0001", cap |-> Some(MaxCap)]) }

Coin(a, n) == [address |-> a, amount |-> n]

Balances == { <<>>, <<Coin("addr0000", 0), Coin("addr0000", 1)>> }

Marketings ==
    { None,
      Some([project |-> None, description |-> None,
            marketing |-> Some("marketing"), logo |-> None]) }

Requests ==
    [name : Names, symbol : Symbols, decimals : Decimals,
     initial_balances : Balances, mint : Mints, marketing : Marketings]

\* every value of the u8 field decimals, on the names and symbols of the tests
RequestsU8 ==
    [name : {TestName, <<97>>}, symbol : {TNT, <<84, 78>>}, decimals : 0..U8Max,
     initial_balances : Balances, mint : Mints, marketing : Marketings]

----------------------------------------------------------------------------
(* The state machine: a request is constructed, then validate and get_cap  *)
(* are called on it, in either order; neither changes the request.         *)

Init ==
    /\ msg \in Requests
    /\ result = NotCalled
    /\ cap = NotCalled

Validate ==
    /\ result = NotCalled
    /\ result' = validate(msg)
    /\ UNCHANGED <<msg, cap>>

GetCap ==
    /\ cap = NotCalled
    /\ cap' = get_cap(msg)
    /\ UNCHANGED <<msg, result>>

Next == Validate \/ GetCap

Spec == Init /\ [][Next]_vars

InitU8 ==
    /\ msg \in RequestsU8
    /\ result = NotCalled
    /\ cap = NotCalled

SpecU8 == InitU8 /\ [][Next]_vars

----------------------------------------------------------------------------
(* Vocabulary of the properties *)

Validated == result # NotCalled

InvalidName ==
    [kind |-> "GenericErr",
     msg |-> "Name is not in the expected format (3-50 UTF-8 bytes)"]

InvalidSymbol ==
    [kind |-> "GenericErr",
     msg |-> "Ticker symbol is not in expected format [a-zA-Z\\-]{3,12}"]

InvalidDecimals ==
    [kind |-> "GenericErr", msg |-> "Decimals must not exceed 18"]

ByteLength(s) == Len(as_bytes(s))

NameOk == ByteLength(msg.name) \in 3..50

AllowedByte(b) == b = 45 \/ b \in 65..90 \/ b \in 97..122

SymbolOk ==
    LET b == as_bytes(msg.symbol) IN
    /\ Len(b) \in 3..12
    /\ \A i \in 1..Len(b) : AllowedByte(b[i])

DecimalsOk == msg.decimals <= 18

----------------------------------------------------------------------------
(* Properties of validate *)

\* C1: a request with a name of 3 to 50 bytes, a symbol of 3 to 12 bytes that
\* are all ASCII letters or hyphens, and decimals of at most 18 is accepted:
\* validate returns Ok.
C1_ValidAccepted ==
    (Validated /\ NameOk /\ SymbolOk /\ DecimalsOk) => result = Ok

\* accepted at the upper boundaries: 50-byte name, symbol of 12 hyphens, 18
C1_Witness ==
    /\ result = Ok
    /\ ByteLength(msg.name) = 50
    /\ msg.symbol = Rep(45, 12)
    /\ msg.decimals = 18

\* C2: a request whose name is shorter than 3 bytes or longer than 50 bytes is
\* rejected with InvalidName, whatever its other fields are.
C2_BadNameRejected ==
    (Validated /\ (ByteLength(msg.name) < 3 \/ ByteLength(msg.name) > 50))
        => result = InvalidName

\* a 51-byte name is rejected although symbol and decimals are acceptable
C2_Witness ==
    /\ result = InvalidName
    /\ ByteLength(msg.name) = 51
    /\ SymbolOk
    /\ DecimalsOk
    /\ msg.mint # None

\* C3 as stated: every request whose symbol has a byte outside [A-Za-z-] or a
\* length outside 3..12 is rejected with InvalidSymbol.
C3_AsStated ==
    (Validated /\ ~SymbolOk) => result = InvalidSymbol

\* C3: a request whose name is 3 to 50 bytes long and whose symbol has a byte
\* outside [A-Za-z-] or a length outside 3..12 is rejected with InvalidSymbol.
C3_BadSymbolRejected ==
    (Validated /\ NameOk /\ ~SymbolOk) => result = InvalidSymbol

\* "TN T" has an accepted length but a space in it
C3_Witness ==
    /\ result = InvalidSymbol
    /\ msg.name = TestName
    /\ msg.symbol = <<84, 78, 32, 84>>
    /\ msg.decimals = 6

\* C4 as stated: every request with decimals above 18 is rejected with
\* InvalidDecimals.
C4_AsStated ==
    (Validated /\ msg.decimals > 18) => result = InvalidDecimals

\* C4: a request whose name and symbol are both acceptable and whose decimals
\* is above 18 (any of 19..255) is rejected with InvalidDecimals.
C4_BadDecimalsRejected ==
    (Validated /\ NameOk /\ SymbolOk /\ msg.decimals > 18)
        => result = InvalidDecimals

\* the largest value of the field is rejected
C4_Witness ==
    /\ result = InvalidDecimals
    /\ msg.decimals = 255
    /\ msg.name = TestName
    /\ msg.symbol = TNT

\* the outcome of the first check that fails, in the order name, symbol, decimals
FirstFailure ==
    IF ~NameOk THEN InvalidName
    ELSE IF ~SymbolOk THEN InvalidSymbol
    ELSE IF ~DecimalsOk THEN InvalidDecimals
    ELSE Ok

\* C5: a request that breaks both the name rule and the symbol rule is
\* reported as InvalidName, never InvalidSymbol, and every call reports the
\* single rejection of the first failing check in the order name, symbol,
\* decimals.
C5_CheckOrder ==
    Validated =>
        /\ (~NameOk /\ ~SymbolOk) => (result = InvalidName /\ result # InvalidSymbol)
        /\ result = FirstFailure

\* name, symbol and decimals all wrong: only the name is reported
C5_Witness ==
    /\ result = InvalidName
    /\ ~NameOk
    /\ ~SymbolOk
    /\ ~DecimalsOk

\* the three validated fields of a request
Checked(m) == <<m.name, m.symbol, m.decimals>>

\* the request with the same name, symbol and decimals and nothing else: no
\* balances, no mint, no marketing
Bare(m) ==
    [m EXCEPT !.initial_balances = <<>>, !.mint = None, !.marketing = None]

\* C7: the outcome of validate depends on name, symbol and decimals only: a
\* request gets the outcome of the bare request with the same three fields,
\* so any two requests that agree on the three fields get the same outcome
\* whatever their initial_balances, mint and marketing.
C7_OnlyCheckedFieldsMatter ==
    Validated =>
        /\ Checked(Bare(msg)) = Checked(msg)
        /\ Bare(msg) \in Requests
        /\ result = validate(Bare(msg))

\* a rejection for decimals of a request with balances, a capped minter and
\* marketing, none of which its bare twin has
C7_Witness ==
    /\ result = InvalidDecimals
    /\ msg.initial_balances # <<>>
    /\ msg.mint # None
    /\ msg.marketing # None
    /\ Bare(msg) # msg

\* encoded size of a character: 1 to 4 bytes
EncodedSize(c) ==
    IF c <= 127 THEN 1 ELSE IF c <= 2047 THEN 2 ELSE IF c <= 65535 THEN 3 ELSE 4

RECURSIVE SumSizes(_)
\* sum of the encoded sizes of the characters of s
SumSizes(s) == IF s = <<>> THEN 0 ELSE EncodedSize(Head(s)) + SumSizes(Tail(s))

\* C8: the name check measures encoded bytes, not characters: the name passes
\* (the outcome is not InvalidName) exactly when the encoded sizes of its
\* characters sum to a value in 3..50.
C8_NameInBytes ==
    Validated => ((result # InvalidName) <=> (SumSizes(msg.name) \in 3..50))

\* 17 three-byte characters: 51 bytes, rejected
C8_Witness ==
    /\ result = InvalidName
    /\ msg.name = Rep(8364, 17)
    /\ Len(msg.name) < 50
    /\ SumSizes(msg.name) = 51

\* C9: validate returns exactly one of Ok, InvalidName, InvalidSymbol and
\* InvalidDecimals, and Ok only if the name is 3 to 50 bytes long, the symbol
\* is 3 to 12 bytes long with every byte a letter or a hyphen, and decimals is
\* at most 18.
C9_OkOnlyIfValid ==
    Validated =>
        /\ result \in {Ok, InvalidName, InvalidSymbol, InvalidDecimals}
        /\ result = Ok => (NameOk /\ SymbolOk /\ DecimalsOk)

\* the request of the repository's test is accepted
C9_Witness ==
    /\ result = Ok
    /\ msg.name = TestName
    /\ msg.symbol = TNT
    /\ msg.decimals = 6

\* C10: a request with an acceptable name, an unacceptable symbol and
\* decimals above 18 is reported as InvalidSymbol, never InvalidDecimals, and
\* InvalidDecimals is reported only when the name and the symbol both pass.
C10_SymbolBeforeDecimals ==
    Validated =>
        /\ (NameOk /\ ~SymbolOk /\ msg.decimals > 18)
                => (result = InvalidSymbol /\ result # InvalidDecimals)
        /\ result = InvalidDecimals => (NameOk /\ SymbolOk)

\* symbol "TN" with decimals 19: the symbol is reported
C10_Witness ==
    /\ result = InvalidSymbol
    /\ NameOk
    /\ msg.symbol = <<84, 78>>
    /\ msg.decimals = 19

----------------------------------------------------------------------------
(* Properties of get_cap *)

\* C6: get_cap returns absent when mint is absent, absent when mint is present
\* without a cap, and the cap itself when mint is present with one; the result
\* is a function of these alone, not of name, symbol, decimals, the minter or
\* the outcome of validate.
C6_GetCap ==
    (cap # NotCalled) =>
        /\ msg.mint = None => cap = None
        /\ (msg.mint # None /\ msg.mint.val.cap = None) => cap = None
        /\ (msg.mint # None /\ msg.mint.val.cap # None) => cap = msg.mint.val.cap

\* the cap of a capped minter is returned for a request validate rejects
C6_Witness ==
    /\ cap = Some(MaxCap)
    /\ msg.mint = Some([minter |-> "minter0001", cap |-> Some(MaxCap)])
    /\ Validated
    /\ result # Ok

====
